---- MODULE Spec2Model ----
(***************************************************************************)
(* what_to_pack: a three-stage packing assistant.                          *)
(*                                                                         *)
(*   json_utils.py       extract_json_text, try_parse_json, validate_keys, *)
(*                       safe_load_validated                               *)
(*   config.py           AzureAIConfig.validate_config                     *)
(*   weather_service.py  WeatherService (_get_session, close,              *)
(*                       get_weather_info_by_coords)                       *)
(*   main.py             DestinationAgent, WeatherAgent, PackingAgent,     *)
(*                       run_multi_agent_workflow                          *)
(*                                                                         *)
(* Text is a sequence of atoms.  An atom is one character ("{", a double   *)
(* quote, a blank, a line feed, a backtick, ...) or a run of characters no *)
(* operation of the code ever splits (a word, a number lexeme).  Python    *)
(* values are tagged tuples:                                               *)
(*   <<"null">>  <<"bool", "true">>  <<"int", "7">>  <<"float", "18.0">>   *)
(*   <<"str", atoms>>  <<"list", <<v1, ...>> >>                            *)
(*   <<"dict", << <<key atoms, value>>, ... >> >>   (insertion ordered)    *)
(* A number carries its Python repr, which is what str() and an f-string   *)
(* print.                                                                  *)
(***************************************************************************)
EXTENDS Integers, Sequences, FiniteSets, TLC

(***************************************************************************)
(* Python values                                                           *)
(***************************************************************************)
None == <<"null">>
PyTrue == <<"bool", "true">>
PyFalse == <<"bool", "false">>
PyInt(lexeme) == <<"int", lexeme>>
PyFloat(lexeme) == <<"float", lexeme>>
PyStr(atoms) == <<"str", atoms>>
PyList(items) == <<"list", items>>
PyDict(pairs) == <<"dict", pairs>>
EmptyDict == PyDict(<<>>)

Kind(v) == v[1]
IsDict(v) == Kind(v) = "dict"

\* key in obj
DictHas(obj, key) == \E n \in 1..Len(obj[2]) : obj[2][n][1] = key

\* obj.get(key, default)
DictGet(obj, key, default) ==
    IF DictHas(obj, key)
    THEN LET n == CHOOSE n \in 1..Len(obj[2]) : obj[2][n][1] = key IN obj[2][n][2]
    ELSE default

\* obj[key] = value on a copy: an existing key keeps its place and takes the
\* new value, a new key is appended (dict(pairs), and {**d, key: value}).
DictSet(obj, key, value) ==
    IF DictHas(obj, key)
    THEN PyDict([n \in 1..Len(obj[2]) |->
                   IF obj[2][n][1] = key THEN <<key, value>> ELSE obj[2][n]])
    ELSE PyDict(Append(obj[2], <<key, value>>))

DictKeys(obj) == {obj[2][n][1] : n \in 1..Len(obj[2])}

\* bool(v): what "if v" and "not v" test.
Truthy(v) ==
    CASE Kind(v) = "null" -> FALSE
      [] Kind(v) = "bool" -> v[2] = "true"
      [] Kind(v) = "int" -> v[2] # "0"
      [] Kind(v) = "float" -> v[2] # "0.0"
      [] OTHER -> v[2] # <<>>

\* isinstance(v, (int, float)): bool is a subclass of int.
IsIntOrFloat(v) == Kind(v) \in {"int", "float", "bool"}

(***************************************************************************)
(* json_utils.py: text helpers                                             *)
(***************************************************************************)
Quote == "\""
\* The backtick character (SANY accepts none inside a string literal).
Backtick == "<backtick>"
Whitespace == {" ", "\n"}

Min(S) == CHOOSE x \in S : \A y \in S : x <= y
Max(S) == CHOOSE x \in S : \A y \in S : x >= y

\* str.strip()
strip(s) ==
    LET keep == {n \in 1..Len(s) : s[n] \notin Whitespace}
    IN  IF keep = {} THEN <<>> ELSE SubSeq(s, Min(keep), Max(keep))

\* str.lower() of one atom
lower(atom) == IF atom \in {"JSON", "Json"} THEN "json" ELSE atom

FenceAt(s, n) ==
    /\ n >= 1
    /\ n + 2 <= Len(s)
    /\ s[n] = Backtick /\ s[n + 1] = Backtick /\ s[n + 2] = Backtick

\* Where group 1 of the pattern (fence, optional json tag, lazy group, fence)
\* starts, for an opening fence at n.
GroupStart(s, n) ==
    IF n + 3 <= Len(s) /\ lower(s[n + 3]) = "json" THEN n + 4 ELSE n + 3

\* CODE_FENCE_PATTERN.search(s): the leftmost opening fence that has a closing
\* fence after it; group 1 runs lazily to the first closing fence.
CODE_FENCE_PATTERN_search(s) ==
    LET closes(n) == {m \in GroupStart(s, n)..Len(s) : FenceAt(s, m)}
        opens == {n \in 1..Len(s) : FenceAt(s, n) /\ closes(n) # {}}
    IN  IF opens = {}
        THEN [match |-> FALSE, group1 |-> <<>>]
        ELSE LET n == Min(opens)
             IN  [match |-> TRUE,
                  group1 |-> SubSeq(s, GroupStart(s, n), Min(closes(n)) - 1)]

\* if inner.lower().startswith("json"): inner = inner[4:].strip()
untagged(inner) ==
    IF inner # <<>> /\ lower(inner[1]) = "json" THEN strip(Tail(inner)) ELSE inner

\* The text after the fence step: group 1 of a match, stripped and untagged.
unfenced(raw, m) == IF m.match THEN untagged(strip(m.group1)) ELSE raw

\* No fallback slicing: the final strip only.
bracket_slice_skipped(raw) == strip(raw)

\* The fallback bracket slicing, and the final strip.
bracket_slice(raw) ==
    LET bracketed == raw # <<>> /\ raw[1] = "{" /\ raw[Len(raw)] = "}"
        lefts == {n \in 1..Len(raw) : raw[n] = "{"}
        rights == {n \in 1..Len(raw) : raw[n] = "}"}
    IN  strip(IF ~bracketed /\ lefts # {} /\ rights # {} /\ Max(rights) > Min(lefts)
              THEN SubSeq(raw, Min(lefts), Max(rights))
              ELSE raw)

fence_step(raw) == unfenced(raw, CODE_FENCE_PATTERN_search(raw))

extract_json_text(raw) == bracket_slice(fence_step(strip(raw)))

(***************************************************************************)
(* json.loads, as try_parse_json calls it.  A result is                    *)
(* [err, val, pos]: err = "" and the value and the place after it, or the  *)
(* decoder's message.  Each step of the decoder is an operator that takes  *)
(* what the steps before it read.                                          *)
(***************************************************************************)
Decoded(v, n) == [err |-> "", val |-> v, pos |-> n]
JSONDecodeError(msg, n) == [err |-> msg, val |-> None, pos |-> n]

\* The number lexemes of the model and the Python number each one denotes.
NumberLexemes == {"0", "5", "7", "18.0", "3.2", "48.85", "2.35", "1e1", "10.0"}
number(lexeme) ==
    CASE lexeme \in {"0", "5", "7"} -> PyInt(lexeme)
      [] lexeme = "1e1" -> PyFloat("10.0")
      [] OTHER -> PyFloat(lexeme)

\* _w(s, n).end(): the first place at or after n that holds no whitespace.
skip_whitespace(s, n) ==
    LET stops == {m \in n..Len(s) : s[m] \notin Whitespace}
    IN  IF stops = {} THEN Len(s) + 1 ELSE Min(stops)

At(s, n) == IF n >= 1 /\ n <= Len(s) THEN s[n] ELSE ""

\* The escape sequences of the model, each one atom, and the character each
\* one stands for inside a JSON string.
EscapedBacktick == "\\u0060"
EscapedQuote == "\\\""
EscapedNewline == "\\n"
unescape(atom) ==
    CASE atom = EscapedBacktick -> Backtick
      [] atom = EscapedQuote -> Quote
      [] atom = EscapedNewline -> "\n"
      [] OTHER -> atom

\* scanstring(s, n, strict=True), n the place after the opening quote.
scanstring(s, n) ==
    LET ends == {m \in n..Len(s) : s[m] \in {Quote, "\n"}}
    IN  IF ends = {}
        THEN JSONDecodeError("Unterminated string starting at", n - 1)
        ELSE IF s[Min(ends)] = "\n"
        THEN JSONDecodeError("Invalid control character at", Min(ends))
        ELSE Decoded(PyStr([k \in 1..(Min(ends) - n) |-> unescape(s[n + k - 1])]),
                     Min(ends) + 1)

RECURSIVE scan_once(_, _), JSONObject(_, _, _), JSONArray(_, _, _)
RECURSIVE object_key(_, _, _), object_colon(_, _, _, _), object_value(_, _, _, _)
RECURSIVE object_next(_, _, _), object_more(_, _, _)
RECURSIVE array_value(_, _, _), array_next(_, _, _)

\* The loop of JSONObject: n is the place after the opening quote of the next
\* key, pairs the dict of the members read so far.
JSONObject(s, n, pairs) == object_key(s, pairs, scanstring(s, n))

object_key(s, pairs, key) ==
    IF key.err # "" THEN key
    ELSE object_colon(s, pairs, key.val[2], skip_whitespace(s, key.pos))

object_colon(s, pairs, key, colon) ==
    IF At(s, colon) # ":" THEN JSONDecodeError("Expecting ':' delimiter", colon)
    ELSE object_value(s, pairs, key, scan_once(s, skip_whitespace(s, colon + 1)))

object_value(s, pairs, key, value) ==
    IF value.err # "" THEN value
    ELSE object_next(s, DictSet(pairs, key, value.val), skip_whitespace(s, value.pos))

object_next(s, pairs, after) ==
    IF At(s, after) = "}" THEN Decoded(pairs, after + 1)
    ELSE IF At(s, after) # "," THEN JSONDecodeError("Expecting ',' delimiter", after)
    ELSE object_more(s, pairs, skip_whitespace(s, after + 1))

object_more(s, pairs, more) ==
    IF At(s, more) # Quote
    THEN JSONDecodeError("Expecting property name enclosed in double quotes", more)
    ELSE JSONObject(s, more + 1, pairs)

\* The loop of JSONArray: n is the place of the next element.
JSONArray(s, n, items) == array_value(s, items, scan_once(s, n))

array_value(s, items, value) ==
    IF value.err # "" THEN value
    ELSE array_next(s, Append(items, value.val), skip_whitespace(s, value.pos))

array_next(s, items, after) ==
    IF At(s, after) = "]" THEN Decoded(PyList(items), after + 1)
    ELSE IF At(s, after) # "," THEN JSONDecodeError("Expecting ',' delimiter", after)
    ELSE JSONArray(s, skip_whitespace(s, after + 1), items)

\* "{" at n: first is the place of the first thing after it.
object_start(s, first) ==
    IF At(s, first) = "}" THEN Decoded(EmptyDict, first + 1)
    ELSE IF At(s, first) # Quote
    THEN JSONDecodeError("Expecting property name enclosed in double quotes", first)
    ELSE JSONObject(s, first + 1, EmptyDict)

\* "[" at n
array_start(s, first) ==
    IF At(s, first) = "]" THEN Decoded(PyList(<<>>), first + 1)
    ELSE JSONArray(s, first, <<>>)

\* One value at place n (no whitespace skipped before it).
scan_once(s, n) ==
    CASE At(s, n) = Quote -> scanstring(s, n + 1)
      [] At(s, n) = "{" -> object_start(s, skip_whitespace(s, n + 1))
      [] At(s, n) = "[" -> array_start(s, skip_whitespace(s, n + 1))
      [] At(s, n) = "null" -> Decoded(None, n + 1)
      [] At(s, n) = "true" -> Decoded(PyTrue, n + 1)
      [] At(s, n) = "false" -> Decoded(PyFalse, n + 1)
      [] At(s, n) \in NumberLexemes -> Decoded(number(At(s, n)), n + 1)
      [] OTHER -> JSONDecodeError("Expecting value", n)

\* After the value: whitespace, and nothing else.
document_end(s, value) ==
    IF value.err # "" THEN value
    ELSE IF skip_whitespace(s, value.pos) # Len(s) + 1
    THEN JSONDecodeError("Extra data", skip_whitespace(s, value.pos))
    ELSE value

\* json.loads(s)
json_loads(s) == document_end(s, scan_once(s, skip_whitespace(s, 1)))

\* except Exception as e: return None, str(e)
parse_outcome(r) ==
    IF r.err = "" THEN [data |-> r.val, error |-> None]
    ELSE [data |-> None, error |-> PyStr(<<r.err>>)]

\* (data, error): error is None on success and str(e) otherwise.
try_parse_json(raw) == parse_outcome(json_loads(raw))

\* (ok, missing)
\* A value that is no mapping taken for a mapping without keys.
validate_keys_of_any_value(obj, required) ==
    [ok |-> \A n \in 1..Len(required) : IsDict(obj) /\ DictHas(obj, required[n]),
     missing |-> SelectSeq(required, LAMBDA k : ~(IsDict(obj) /\ DictHas(obj, k)))]

validate_keys(obj, required) ==
    IF ~IsDict(obj) THEN [ok |-> FALSE, missing |-> required]
    ELSE [ok |-> \A n \in 1..Len(required) : DictHas(obj, required[n]),
          missing |-> SelectSeq(required, LAMBDA k : ~DictHas(obj, k))]

RECURSIVE join(_, _)
\* sep.join(parts), parts a sequence of atom sequences
join(sep, parts) ==
    IF parts = <<>> THEN <<>>
    ELSE IF Len(parts) = 1 THEN parts[1]
    ELSE parts[1] \o sep \o join(sep, Tail(parts))

\* if not ok: warnings.append(f"Missing keys: {', '.join(missing)}")
key_warnings(checked) ==
    IF ~checked.ok THEN << <<"Missing keys: ">> \o join(<<", ">>, checked.missing) >>
    ELSE <<>>

\* No early return on a parse error: validation runs on the missing value.
load_validated_falls_through(parsed, required_keys) ==
    IF Truthy(parsed.error)
    THEN [data |-> EmptyDict,
          warnings |-> << <<"JSON parse error: ">> \o parsed.error[2] >>
                       \o key_warnings(validate_keys(parsed.data, required_keys))]
    ELSE [data |-> parsed.data,
          warnings |-> key_warnings(validate_keys(parsed.data, required_keys))]

\* safe_load_validated once the text is parsed.
load_validated(parsed, required_keys) ==
    IF Truthy(parsed.error)
    THEN [data |-> EmptyDict, warnings |-> << <<"JSON parse error: ">> \o parsed.error[2] >>]
    ELSE [data |-> parsed.data,
          warnings |-> key_warnings(validate_keys(parsed.data, required_keys))]

\* (data, warnings)
safe_load_validated(raw, required_keys) ==
    load_validated(try_parse_json(extract_json_text(raw)), required_keys)

(***************************************************************************)
(* json.dumps with its defaults: how a parsed value is written back as     *)
(* JSON text (", " and ": " between items, strings escaped)                *)
(***************************************************************************)
escape(atom) ==
    CASE atom = Quote -> EscapedQuote
      [] atom = "\n" -> EscapedNewline
      [] OTHER -> atom

encode_basestring(atoms) ==
    <<Quote>> \o [k \in 1..Len(atoms) |-> escape(atoms[k])] \o <<Quote>>

RECURSIVE json_dumps(_)
json_dumps(v) ==
    CASE Kind(v) = "null" -> <<"null">>
      [] Kind(v) = "bool" -> <<v[2]>>
      [] Kind(v) \in {"int", "float"} -> <<v[2]>>
      [] Kind(v) = "str" -> encode_basestring(v[2])
      [] Kind(v) = "list" ->
            <<"[">> \o join(<<",", " ">>, [n \in 1..Len(v[2]) |-> json_dumps(v[2][n])])
            \o <<"]">>
      [] OTHER ->
            <<"{">>
            \o join(<<",", " ">>,
                    [n \in 1..Len(v[2]) |->
                       encode_basestring(v[2][n][1]) \o <<":", " ">> \o json_dumps(v[2][n][2])])
            \o <<"}">>

(***************************************************************************)
(* str() and repr(), as an f-string and ", ".join use them                 *)
(***************************************************************************)
RECURSIVE repr(_)
repr(v) ==
    CASE Kind(v) = "null" -> <<"None">>
      [] Kind(v) = "bool" -> IF v[2] = "true" THEN <<"True">> ELSE <<"False">>
      [] Kind(v) \in {"int", "float"} -> <<v[2]>>
      [] Kind(v) = "str" -> <<"'">> \o v[2] \o <<"'">>
      [] Kind(v) = "list" ->
            <<"[">> \o join(<<", ">>, [n \in 1..Len(v[2]) |-> repr(v[2][n])]) \o <<"]">>
      [] OTHER ->
            <<"{">>
            \o join(<<", ">>, [n \in 1..Len(v[2]) |->
                                 <<"'">> \o v[2][n][1] \o <<"'", ": ">> \o repr(v[2][n][2])])
            \o <<"}">>

\* format(v, ""), what {v} in an f-string prints
str(v) == IF Kind(v) = "str" THEN v[2] ELSE repr(v)

(***************************************************************************)
(* config.py                                                               *)
(***************************************************************************)
\* A check of the model identifier in place of the endpoint.
validate_config_model_only(cfg) == Truthy(cfg.model_deployment_name)

\* AzureAIConfig.validate_config: only the endpoint is looked at.
validate_config(cfg) == Truthy(cfg.endpoint)

(***************************************************************************)
(* main.py: the pure parts of the three handlers                           *)
(***************************************************************************)
destination == <<"destination">>
duration == <<"duration">>
travel_type == <<"travel_type">>
latitude_key == <<"latitude">>
longitude_key == <<"longitude">>
weather == <<"weather">>
weather_analysis == <<"weather_analysis">>
weather_summary == <<"weather_summary">>
packing_notes == <<"packing_notes">>
temperature == <<"temperature">>
wind_speed == <<"wind_speed">>

\* v.get(...) raises AttributeError unless v is a dict.
has_get(v) == IsDict(v)

\* DestinationAgent.handle_user_input, from the model's text to the message sent.
fallback_travel_info(data) ==
    IF ~Truthy(data)
    THEN PyDict(<< <<destination, PyStr(<<"Paris">>)>>,
                   <<duration, PyInt("7")>>,
                   <<travel_type, PyStr(<<"vacation">>)>> >>)
    ELSE data

extracted_travel_info(raw_text) ==
    fallback_travel_info(
        safe_load_validated(raw_text, <<destination, duration, travel_type>>).data)

\* geo_data.get(key) if isinstance(geo_data.get(key), (int, float)) else None
resolved_coordinate(geo_data, key) ==
    IF IsIntOrFloat(DictGet(geo_data, key, None)) THEN DictGet(geo_data, key, None) ELSE None

\* The else branch of the handler: no weather reading.
unavailable_analysis ==
    PyDict(<< <<weather_summary, PyStr(<<"Weather data unavailable">>)>>,
              <<packing_notes, PyList(<< PyStr(<<"Pack for variable weather conditions">>) >>)>> >>)

\* The fallback with temperature and wind speed exchanged.
fallback_analysis_swapped(data, weather_data) ==
    IF ~Truthy(data)
    THEN PyDict(<< <<weather_summary,
                     PyStr(<<"Temp ">> \o str(DictGet(weather_data, wind_speed, None))
                           \o <<"°C, wind ">> \o str(DictGet(weather_data, temperature, None))
                           \o <<" m/s">>)>>,
                   <<packing_notes,
                     PyList(<< PyStr(<<"Layer clothing appropriately">>),
                               PyStr(<<"Consider wind-resistant outerwear">>) >>)>> >>)
    ELSE data

\* The assessment of a reading, from the model's text.
fallback_analysis(data, weather_data) ==
    IF ~Truthy(data)
    THEN PyDict(<< <<weather_summary,
                     PyStr(<<"Temp ">> \o str(DictGet(weather_data, temperature, None))
                           \o <<"°C, wind ">> \o str(DictGet(weather_data, wind_speed, None))
                           \o <<" m/s">>)>>,
                   <<packing_notes,
                     PyList(<< PyStr(<<"Layer clothing appropriately">>),
                               PyStr(<<"Consider wind-resistant outerwear">>) >>)>> >>)
    ELSE data

assessed_weather(analysis_raw, weather_data) ==
    fallback_analysis(
        safe_load_validated(analysis_raw, <<weather_summary, packing_notes>>).data,
        weather_data)

\* A merge that starts from an empty record.
merged_info_fresh(travel_info, weather_data, analysis) ==
    DictSet(DictSet(EmptyDict, weather, weather_data), weather_analysis, analysis)

\* {**travel_info, "weather": weather_data, "weather_analysis": analysis}
merged_info(travel_info, weather_data, analysis) ==
    DictSet(DictSet(travel_info, weather, weather_data), weather_analysis, analysis)

\* ", ".join(notes) raises TypeError unless notes is an iterable of strings: a
\* list of strings, a dict (its keys) or a string (its characters).
joinable(notes) ==
    CASE Kind(notes) = "list" -> \A n \in 1..Len(notes[2]) : Kind(notes[2][n]) = "str"
      [] Kind(notes) \in {"dict", "str"} -> TRUE
      [] OTHER -> FALSE

joined_notes(notes) ==
    CASE Kind(notes) = "list" -> join(<<", ">>, [n \in 1..Len(notes[2]) |-> notes[2][n][2]])
      [] Kind(notes) = "dict" -> join(<<", ">>, [n \in 1..Len(notes[2]) |-> notes[2][n][1]])
      [] OTHER -> join(<<", ">>, [n \in 1..Len(notes[2]) |-> <<notes[2][n]>>])

\* What PackingAgent.handle_complete_info evaluates before its model call
\* raises on: weather_analysis.get of a non-dict, join of a non-iterable.
prompt_error(complete_info) ==
    LET analysis == DictGet(complete_info, weather_analysis, EmptyDict)
    IN  IF ~has_get(analysis) THEN "AttributeError"
        ELSE IF ~joinable(DictGet(analysis, packing_notes, PyList(<<>>))) THEN "TypeError"
        ELSE ""

\* No template: the model's recommendations alone.
packing_report_bare(complete_info, packing_recommendations) == packing_recommendations

\* The report template around the model's recommendations.
packing_report(complete_info, packing_recommendations) ==
    LET analysis == DictGet(complete_info, weather_analysis, EmptyDict)
        summary == DictGet(analysis, weather_summary, None)
    IN  <<"\n", "TRAVEL PLANNING SUMMARY", "\n", "==========================", "\n",
          "Destination: ">> \o str(DictGet(complete_info, destination, PyStr(<<"Unknown">>)))
        \o <<"\n", "Duration: ">> \o str(DictGet(complete_info, duration, PyInt("7")))
        \o <<" days", "\n", "Travel Type: ">>
        \o str(DictGet(complete_info, travel_type, PyStr(<<"vacation">>)))
        \o <<"\n">>
        \o (IF Truthy(summary)
            THEN <<"Weather: ">> \o str(DictGet(analysis, weather_summary, PyStr(<<"N/A">>)))
            ELSE <<>>)
        \o <<"\n", "\n", "PACKING RECOMMENDATIONS", "\n", "==========================", "\n">>
        \o packing_recommendations
        \o <<"\n", "\n", "Have a wonderful trip!", "\n">>

(***************************************************************************)
(* Inputs: the texts the language model may return, the weather responses, *)
(* the environment                                                         *)
(***************************************************************************)
\* How many whitespace atoms may surround a reply.
MaxPad == 1
\* How many packing notes an assessment reply may list.
MaxNotes == 2

Lit(word) == <<Quote, word, Quote>>
Member(key, valueText) == Lit(key) \o <<":", " ">> \o valueText
Object(members) == <<"{">> \o join(<<",", " ">>, members) \o <<"}">>
Array(elements) == <<"[">> \o join(<<",", " ">>, elements) \o <<"]">>
Fenced(tag, text) ==
    <<Backtick, Backtick, Backtick>> \o tag \o <<"\n">> \o text
    \o <<"\n", Backtick, Backtick, Backtick>>
Padded(texts) ==
    UNION {{[n \in 1..k |-> " "] \o t \o [n \in 1..k |-> "\n"] : t \in texts} : k \in 0..MaxPad}

\* Texts that are no JSON object, whatever the call point.
NotJson == {<<"Sorry", " ", "no", " ", "idea">>, <<>>, <<"{", Quote, "destination", "}">>}
NotObject == {Array(<<<<"5">>>>), <<"7">>, <<"0">>, Lit("Rome"), <<"null">>, <<"true">>,
              Array(<<>>)}

ExtractionObjects ==
    {Object(<<Member("destination", Lit("Rome")), Member("duration", <<"5">>),
              Member("travel_type", Lit("business"))>>),
     Object(<<Member("destination", Lit("Rome"))>>),
     Object(<<Member("destination", <<"5">>), Member("duration", Lit("week")),
              Member("travel_type", <<"null">>)>>),
     Object(<<Member("destination", Lit("Oslo")), Member("duration", <<"7">>),
              Member("travel_type", Lit("adventure")),
              Member("weather_analysis", Lit("sunny")), Member("weather", <<"5">>)>>),
     Object(<<>>)}
ExtractionReplies ==
    Padded(ExtractionObjects \cup NotJson \cup NotObject)
    \cup {Fenced(<<"json">>, t) : t \in ExtractionObjects}
    \cup {<<"Here", " ">> \o t \o <<" ", "enjoy">> : t \in ExtractionObjects}

GeoObjects ==
    {Object(<<Member("latitude", <<"48.85">>), Member("longitude", <<"2.35">>),
              Member("precision_km", <<"5">>)>>),
     Object(<<Member("latitude", <<"0">>), Member("longitude", <<"7">>)>>),
     Object(<<Member("latitude", <<"48.85">>)>>),
     Object(<<Member("longitude", <<"2.35">>)>>),
     Object(<<Member("latitude", Lit("48.85")), Member("longitude", <<"2.35">>)>>),
     Object(<<Member("latitude", <<"true">>), Member("longitude", <<"2.35">>)>>),
     Object(<<Member("latitude", <<"48.85">>), Member("longitude", <<"false">>)>>),
     Object(<<Member("latitude", <<"null">>), Member("longitude", <<"2.35">>)>>),
     Object(<<Member("latitude", Array(<<<<"48.85">>>>)), Member("longitude", Object(<<>>))>>),
     Object(<<>>)}
GeoReplies ==
    Padded(GeoObjects \cup NotJson \cup NotObject)
    \cup {Fenced(<<"JSON">>, t) : t \in GeoObjects}

Notes(k) == Array([n \in 1..k |-> Lit(IF n = 1 THEN "coat" ELSE "scarf")])
AssessmentObjects ==
    {Object(<<Member("weather_summary", Lit("mild")), Member("packing_notes", Notes(k))>>)
        : k \in 0..MaxNotes}
    \cup
    {Object(<<Member("weather_summary", Lit("mild"))>>),
     Object(<<Member("packing_notes", Notes(1))>>),
     Object(<<Member("weather_summary", <<Quote, Quote>>), Member("packing_notes", Notes(1))>>),
     Object(<<Member("weather_summary", Lit("mild")), Member("packing_notes", <<"5">>)>>),
     Object(<<Member("weather_summary", Lit("mild")), Member("packing_notes", Array(<<<<"5">>>>))>>),
     Object(<<Member("weather_summary", <<"7">>), Member("packing_notes", Lit("x"))>>),
     Object(<<Member("summary", Lit("mild"))>>),
     Object(<<>>)}
AssessmentReplies ==
    Padded(AssessmentObjects \cup NotJson \cup NotObject)
    \cup {Fenced(<<>>, t) : t \in AssessmentObjects}

SynthesisReplies == {<<"1. Clothing", "\n", "2. Essentials">>, <<>>}

UserInputs == {<<"I'm planning a 5-day vacation to Paris">>, <<>>}

\* os.getenv: unset (None), set to the empty string, or set.
Endpoints == {None, PyStr(<<>>), PyStr(<<"https://project.example">>)}
ModelDeploymentNames == {PyStr(<<"gpt-4o-mini">>), PyStr(<<>>)}

\* current.get("temperature_2m"), current.get("wind_speed_10m")
Temperatures == {PyFloat("18.0"), PyInt("0"), None}
WindSpeeds == {PyFloat("3.2"), None}

\* agent.run(messages): a reply, or an error raised.
agent_run(replies) ==
    {[raised |-> FALSE, text |-> t] : t \in replies} \cup {[raised |-> TRUE, text |-> <<>>]}

\* self._session = None
NoSession == 0

(***************************************************************************)
(* State of one run of run_multi_agent_workflow                            *)
(***************************************************************************)
VARIABLES
    pc,               \* where the run is
    config,           \* AzureAIConfig: endpoint, model_deployment_name
    user_input,
    error,            \* the exception that ended the run, "" when none
    calls,            \* the collaborator calls made, in order
    reply,            \* the text of the latest agent.run response
    travel_info,      \* the message of DestinationAgent
    geo_data, latitude, longitude, weather_data,   \* locals of WeatherAgent
    complete_info,    \* the message of WeatherAgent
    yielded,          \* the output PackingAgent yielded, None when none
    final_output,     \* the local of run_multi_agent_workflow
    returned,         \* what the run returned, None when it raised or runs
    weather_service,  \* whether WeatherService(config) was constructed
    session,          \* WeatherService._session: NoSession, or the place in
                      \* sessions of the ClientSession it refers to
    sessions,         \* every ClientSession created so far: "open", "closed"
    close_calls,      \* how often WeatherService.close was invoked
    status,           \* what the latest session.get met, "none" before it
    raw, required_keys, loaded,  \* one call of safe_load_validated: its
                                 \* arguments and, once it returned, its result
    json_text, parsed_json, key_check,  \* the locals of that call
    fed_back          \* the result whose data was serialised into raw

run_vars == <<config, user_input>>
stage_vars == <<travel_info, geo_data, latitude, longitude, weather_data, complete_info, yielded>>
service_vars == <<weather_service, session, sessions, close_calls, status>>
parser_vars == <<raw, required_keys, loaded, json_text, parsed_json, key_check,
                fed_back>>
vars == <<pc, error, calls, reply, final_output, returned, run_vars, stage_vars, service_vars,
          parser_vars>>

\* loaded before safe_load_validated returned
NotLoaded == [data |-> None, warnings |-> << <<"not called">> >>]
\* parsed_json before try_parse_json returned, key_check before validate_keys did
NotParsed == [data |-> None, error |-> PyStr(<<"not called">>)]
NotChecked == [ok |-> FALSE, missing |-> << <<"not called">> >>]
\* The locals of safe_load_validated before the call.
ParserAtRest ==
    /\ loaded = NotLoaded
    /\ json_text = <<>>
    /\ parsed_json = NotParsed
    /\ key_check = NotChecked

StartOfRun ==
    /\ pc = "validate_config"
    /\ error = ""
    /\ calls = <<>>
    /\ reply = <<>>
    /\ travel_info = None
    /\ geo_data = None
    /\ latitude = None
    /\ longitude = None
    /\ weather_data = None
    /\ complete_info = None
    /\ yielded = None
    /\ final_output = <<>>
    /\ returned = None
    /\ weather_service = FALSE
    /\ session = NoSession
    /\ sessions = <<>>
    /\ close_calls = 0
    /\ status = "none"

Init ==
    /\ StartOfRun
    /\ config \in [endpoint : Endpoints, model_deployment_name : ModelDeploymentNames]
    /\ user_input \in UserInputs
    /\ raw = <<>>
    /\ required_keys = <<>>
    /\ ParserAtRest
    /\ fed_back = NotLoaded

Called(callee, raised) == [callee |-> callee, raised |-> raised]

\* The error caught where it is raised: the workflow ends without an output.
Raise_swallowed(kind) ==
    /\ error' = error
    /\ pc' = "run_stream"

\* An exception leaves the handler and the workflow; inside the try block it
\* reaches the finally clause.
Raise(kind) ==
    /\ error' = kind
    /\ pc' = "finally"

\* run_multi_agent_workflow up to WeatherService(config): the configuration
\* check raises before the service exists and outside the try block.
CheckConfiguration ==
    /\ pc = "validate_config"
    /\ IF ~validate_config(config)
       THEN /\ error' = "RuntimeError"
            /\ pc' = "ended"
            /\ UNCHANGED weather_service
       ELSE /\ weather_service' = TRUE
            /\ pc' = "credential"
            /\ UNCHANGED error
    /\ UNCHANGED <<calls, reply, final_output, returned, run_vars, stage_vars, session,
                   sessions, close_calls, status, parser_vars>>

\* async with DefaultAzureCredential() as credential: entered before the try
\* block, so an error here reaches no finally clause.
EnterCredential ==
    /\ pc = "credential"
    /\ \/ /\ pc' = "create_agents"
          /\ UNCHANGED error
       \/ /\ error' = "CredentialError"
          /\ pc' = "ended"
    /\ UNCHANGED <<calls, reply, final_output, returned, run_vars, stage_vars, service_vars,
                   parser_vars>>

\* create_agents, entering the three agents, building the workflow.
CreateAgents ==
    /\ pc = "create_agents"
    /\ \/ /\ pc' = "handle_user_input"
          /\ UNCHANGED error
       \/ Raise("AgentError")
    /\ UNCHANGED <<calls, reply, final_output, returned, run_vars, stage_vars, service_vars,
                   parser_vars>>

\* DestinationAgent.handle_user_input
handle_user_input ==
    /\ pc = "handle_user_input"
    /\ \E response \in agent_run(ExtractionReplies) :
          /\ calls' = Append(calls, Called("extraction", response.raised))
          /\ reply' = response.text
          /\ IF response.raised
             THEN /\ Raise("LanguageModelError")
                  /\ UNCHANGED travel_info
             ELSE /\ travel_info' = extracted_travel_info(response.text)
                  /\ pc' = "handle_travel_info"
                  /\ UNCHANGED error
    /\ UNCHANGED <<final_output, returned, run_vars, geo_data, latitude, longitude,
                   weather_data, complete_info, yielded, service_vars, parser_vars>>

\* WeatherAgent.handle_travel_info up to the weather fetch.  The handler is
\* declared for Dict[str, Any]; a message that is no dict either is not
\* delivered (the workflow then ends without an output) or fails at
\* travel_info.get.
handle_travel_info ==
    /\ pc = "handle_travel_info"
    /\ IF ~has_get(travel_info)
       THEN /\ \/ Raise("AttributeError")
               \/ /\ pc' = "run_stream"
                  /\ UNCHANGED error
            /\ UNCHANGED <<calls, reply, geo_data, latitude, longitude, complete_info>>
       ELSE \E response \in agent_run(GeoReplies) :
            \E data \in {safe_load_validated(response.text, <<latitude_key, longitude_key>>).data} :
               LET lat == resolved_coordinate(data, latitude_key)
                   lon == resolved_coordinate(data, longitude_key)
               IN  /\ calls' = Append(calls, Called("geocoding", response.raised))
                   /\ reply' = response.text
                   /\ IF response.raised
                      THEN /\ Raise("LanguageModelError")
                           /\ UNCHANGED <<geo_data, latitude, longitude, complete_info>>
                      ELSE /\ geo_data' = data
                           /\ IF ~has_get(data)
                              THEN /\ Raise("AttributeError")
                                   /\ UNCHANGED <<latitude, longitude, complete_info>>
                              ELSE /\ latitude' = lat
                                   /\ longitude' = lon
                                   /\ UNCHANGED error
                                   /\ IF lat # None /\ lon # None
                                      THEN /\ pc' = "get_weather_info_by_coords"
                                           /\ UNCHANGED complete_info
                                      ELSE /\ complete_info' =
                                                merged_info(travel_info, None, unavailable_analysis)
                                           /\ pc' = "handle_complete_info"
    /\ UNCHANGED <<final_output, returned, run_vars, travel_info, weather_data, yielded,
                   service_vars, parser_vars>>

\* A ClientSession created at every call, whatever self._session refers to.
get_session_always_new(ref, made) ==
    [session |-> Len(made) + 1, sessions |-> Append(made, "open")]

\* WeatherService._get_session: what self._session refers to when it returns,
\* and the sessions there are then.
get_session(ref, made) ==
    IF ref = NoSession \/ made[ref] = "closed"
    THEN [session |-> Len(made) + 1, sessions |-> Append(made, "open")]
    ELSE [session |-> ref, sessions |-> made]

\* The reading with the two coordinates in each other's place.
weather_reading_swapped(t, w, lat, lon) ==
    PyDict(<< <<temperature, t>>, <<wind_speed, w>>, <<latitude_key, lon>>,
              <<longitude_key, lat>>, <<<<"source">>, PyStr(<<"open-meteo">>)>> >>)

\* The dict get_weather_info_by_coords returns on status 200.
weather_reading(t, w, lat, lon) ==
    PyDict(<< <<temperature, t>>, <<wind_speed, w>>, <<latitude_key, lat>>,
              <<longitude_key, lon>>, <<<<"source">>, PyStr(<<"open-meteo">>)>> >>)

\* What the request meets: no session could be created, session.get raised,
\* a status other than 200, status 200 with a body that response.json() or
\* data.get cannot read, status 200 with a JSON object.  All but the last end
\* in "return None", the errors through "except Exception".
Responses == {"session error", "transport error", "500", "200 unreadable body", "200"}

\* What a request can meet with self._session as it is: aiohttp.ClientSession()
\* can fail only when _get_session constructs one.
Meets(ref, made) ==
    IF get_session(ref, made).session = ref THEN Responses \ {"session error"} ELSE Responses

\* self._session and the sessions after "session = await self._get_session()".
session_got(met, ref, made) ==
    IF met = "session error" THEN [session |-> ref, sessions |-> made]
    ELSE get_session(ref, made)

\* WeatherService.get_weather_info_by_coords, and the handler's branch on it.
get_weather_info_by_coords ==
    /\ pc = "get_weather_info_by_coords"
    /\ calls' = Append(calls, Called("weather_lookup", FALSE))
    /\ \E met \in Meets(session, sessions) :
       \E t \in Temperatures, w \in WindSpeeds :
          LET reading == IF met = "200" THEN weather_reading(t, w, latitude, longitude)
                         ELSE None
          IN  /\ session' = session_got(met, session, sessions).session
              /\ sessions' = session_got(met, session, sessions).sessions
              /\ status' = met
              /\ weather_data' = reading
              /\ IF Truthy(reading)
                 THEN /\ pc' = "assess"
                      /\ UNCHANGED complete_info
                 ELSE /\ complete_info' = merged_info(travel_info, None, unavailable_analysis)
                      /\ pc' = "handle_complete_info"
    /\ UNCHANGED <<error, reply, final_output, returned, run_vars, travel_info, geo_data,
                   latitude, longitude, yielded, weather_service, close_calls, parser_vars>>

\* The reading merged without an assessment call.
assess_weather_skipped ==
    /\ pc = "assess"
    /\ complete_info' = merged_info(travel_info, weather_data,
                                    fallback_analysis(EmptyDict, weather_data))
    /\ pc' = "handle_complete_info"
    /\ UNCHANGED <<error, calls, reply, final_output, returned, run_vars, travel_info, geo_data,
                   latitude, longitude, weather_data, yielded, service_vars, parser_vars>>

\* WeatherAgent.handle_travel_info with a reading: the assessment call.
assess_weather ==
    /\ pc = "assess"
    /\ \E response \in agent_run(AssessmentReplies) :
          /\ calls' = Append(calls, Called("assessment", response.raised))
          /\ reply' = response.text
          /\ IF response.raised
             THEN /\ Raise("LanguageModelError")
                  /\ UNCHANGED complete_info
             ELSE /\ complete_info' =
                        merged_info(travel_info, weather_data,
                                    assessed_weather(response.text, weather_data))
                  /\ pc' = "handle_complete_info"
                  /\ UNCHANGED error
    /\ UNCHANGED <<final_output, returned, run_vars, travel_info, geo_data, latitude,
                   longitude, weather_data, yielded, service_vars, parser_vars>>

\* PackingAgent.handle_complete_info
handle_complete_info ==
    /\ pc = "handle_complete_info"
    /\ IF prompt_error(complete_info) # ""
       THEN /\ Raise(prompt_error(complete_info))
            /\ UNCHANGED <<calls, reply, yielded>>
       ELSE \E response \in agent_run(SynthesisReplies) :
               /\ calls' = Append(calls, Called("synthesis", response.raised))
               /\ reply' = response.text
               /\ IF response.raised
                  THEN /\ Raise("LanguageModelError")
                       /\ UNCHANGED yielded
                  ELSE /\ yielded' = PyStr(packing_report(complete_info, response.text))
                       /\ pc' = "run_stream"
                       /\ UNCHANGED error
    /\ UNCHANGED <<final_output, returned, run_vars, travel_info, geo_data, latitude,
                   longitude, weather_data, complete_info, service_vars, parser_vars>>

\* A stream that ends without an output starts the workflow again.
CollectOutput_restarting ==
    /\ pc = "run_stream"
    /\ final_output' = IF yielded # None THEN yielded[2] ELSE final_output
    /\ pc' = IF yielded # None THEN "finally" ELSE "handle_user_input"
    /\ UNCHANGED <<error, calls, reply, returned, run_vars, stage_vars, service_vars,
                   parser_vars>>

\* The loop over workflow.run_stream: the output event sets final_output; a
\* stream that ends without one leaves it empty.
CollectOutput ==
    /\ pc = "run_stream"
    /\ final_output' = IF yielded # None THEN yielded[2] ELSE final_output
    /\ pc' = "finally"
    /\ UNCHANGED <<error, calls, reply, returned, run_vars, stage_vars, service_vars,
                   parser_vars>>

\* WeatherService.close: the sessions after it.
close(ref, made) ==
    IF ref # NoSession /\ made[ref] # "closed" THEN [made EXCEPT ![ref] = "closed"]
    ELSE made

\* finally: await weather_service.close(); then the return, or the error goes on.
Finally ==
    /\ pc = "finally"
    /\ close_calls' = close_calls + 1
    /\ sessions' = close(session, sessions)
    /\ returned' = IF error = "" THEN PyStr(final_output) ELSE None
    /\ pc' = "ended"
    /\ UNCHANGED <<error, calls, reply, final_output, run_vars, stage_vars, weather_service,
                   session, status, parser_vars>>

Next ==
    \/ CheckConfiguration
    \/ EnterCredential
    \/ CreateAgents
    \/ handle_user_input
    \/ handle_travel_info
    \/ get_weather_info_by_coords
    \/ assess_weather
    \/ handle_complete_info
    \/ CollectOutput
    \/ Finally

Spec == Init /\ [][Next]_vars

(***************************************************************************)
(* safe_load_validated on its own: any text, any list of required keys     *)
(***************************************************************************)
\* Texts with fences and braces in the places the replies above leave out.
OddTexts ==
    {Fenced(<<"json">>, <<"x", " ">> \o Object(<<Member("destination", Lit("Rome"))>>) \o <<" ", "y">>),
     Fenced(<<"json", "json">>, Object(<<>>)),
     <<Backtick, Backtick, Backtick, Backtick>> \o Object(<<>>) \o <<Backtick, Backtick, Backtick>>,
     Object(<<Member("destination", <<Quote, "}", "x", "{", Quote>>)>>),
     Object(<<Member("destination", <<Quote, Backtick, Backtick, Backtick, "x", Backtick,
                                      Backtick, Backtick, Quote>>)>>),
     <<Quote, "a", "{", "b", "}", Quote>>,
     Object(<<Member("destination", <<"1e1">>), Member("destination", <<"5">>)>>),
     Object(<<Member("destination", Lit("Rome"))>>) \o <<"5">>,
     <<"{", Quote, "destination", Quote, "5", "}">>,
     <<"{", Quote, "destination", Quote, ":", "5", ",", "}">>,
     <<"[", "5", ",", "]">>,
     <<"[", "5", " ", "7", "]">>,
     <<Quote, "a", "\n", "b", Quote>>,
     <<"false">>, <<"18.0">>,
     Object(<<Member("destination", <<Quote, EscapedBacktick, EscapedBacktick, EscapedBacktick,
                                      "x", EscapedBacktick, EscapedBacktick, EscapedBacktick,
                                      Quote>>)>>),
     Object(<<Member("destination", <<Quote, "a", EscapedQuote, "b", EscapedNewline, Quote>>),
              Member("duration", <<"1e1">>)>>),
     <<"Here", " ">> \o Fenced(<<"Json">>, Object(<<Member("destination", Lit("Rome"))>>))
        \o <<" ", "enjoy">>,
     Fenced(<<"json">>, Array(<<<<"5">>>>)),
     Fenced(<<"json">>, Array(<<Object(<<Member("destination", Lit("Rome"))>>)>>)),
     Fenced(<<"json">>, Object(<<Member("destination", Lit("Rome"))>>))
        \o <<" ">> \o Fenced(<<"json">>, Object(<<>>)),
     Fenced(<<>>, <<"x">>) \o Fenced(<<"json">>, Object(<<>>)),
     Fenced(<<"json">>, <<>>)}

ParserTexts ==
    ExtractionReplies \cup GeoReplies \cup AssessmentReplies \cup Padded(OddTexts)

RequiredKeyLists ==
    {<<>>, <<destination>>, <<destination, duration, travel_type>>,
     <<latitude_key, longitude_key>>, <<weather_summary, packing_notes>>,
     <<travel_type, destination>>}

ParserInit ==
    /\ StartOfRun
    /\ config = [endpoint |-> None, model_deployment_name |-> PyStr(<<"gpt-4o-mini">>)]
    /\ user_input = <<>>
    /\ raw \in ParserTexts
    /\ required_keys \in RequiredKeyLists
    /\ ParserAtRest
    /\ fed_back = NotLoaded

\* One call of safe_load_validated, its locals recorded.
call_safe_load_validated ==
    /\ loaded = NotLoaded
    /\ json_text' = extract_json_text(raw)
    /\ parsed_json' = try_parse_json(json_text')
    /\ key_check' = IF Truthy(parsed_json'.error) THEN NotChecked
                    ELSE validate_keys(parsed_json'.data, required_keys)
    /\ loaded' = safe_load_validated(raw, required_keys)
    /\ UNCHANGED <<pc, error, calls, reply, final_output, returned, run_vars, stage_vars,
                   service_vars, raw, required_keys, fed_back>>

\* The mapping of a successful call, written back as JSON text, becomes the
\* text of a second call.
restringify ==
    /\ loaded # NotLoaded
    /\ fed_back = NotLoaded
    /\ parsed_json.error = None
    /\ IsDict(loaded.data)
    /\ fed_back' = loaded
    /\ raw' = json_dumps(loaded.data)
    /\ loaded' = NotLoaded
    /\ json_text' = <<>>
    /\ parsed_json' = NotParsed
    /\ key_check' = NotChecked
    /\ UNCHANGED <<pc, error, calls, reply, final_output, returned, run_vars, stage_vars,
                   service_vars, required_keys>>

ParserNext ==
    \/ call_safe_load_validated
    \/ restringify

ParserSpec == ParserInit /\ [][ParserNext]_vars

(***************************************************************************)
(* One WeatherService and a caller of its two methods                      *)
(***************************************************************************)
\* How many calls the caller makes on the service.
MaxCalls == 4

\* The latitude and longitude a caller passes.
Coordinates == {<<PyFloat("48.85"), PyFloat("2.35")>>, <<PyInt("0"), PyInt("7")>>}

\* WeatherService(config) constructed, no method called yet.
ServiceInit ==
    /\ pc = "caller"
    /\ config = [endpoint |-> None, model_deployment_name |-> PyStr(<<"gpt-4o-mini">>)]
    /\ user_input = <<>>
    /\ error = ""
    /\ calls = <<>>
    /\ reply = <<>>
    /\ travel_info = None
    /\ geo_data = None
    /\ latitude = None
    /\ longitude = None
    /\ weather_data = None
    /\ complete_info = None
    /\ yielded = None
    /\ final_output = <<>>
    /\ returned = None
    /\ weather_service = TRUE
    /\ session = NoSession
    /\ sessions = <<>>
    /\ close_calls = 0
    /\ status = "none"
    /\ raw = <<>>
    /\ required_keys = <<>>
    /\ ParserAtRest
    /\ fed_back = NotLoaded

\* await service.get_weather_info_by_coords(lat, lon), called on its own.
call_get_weather_info_by_coords ==
    /\ pc = "caller"
    /\ Len(calls) + close_calls < MaxCalls
    /\ calls' = Append(calls, Called("weather_lookup", FALSE))
    /\ \E at \in Coordinates, met \in Meets(session, sessions) :
       \E t \in Temperatures, w \in WindSpeeds :
          /\ latitude' = at[1]
          /\ longitude' = at[2]
          /\ session' = session_got(met, session, sessions).session
          /\ sessions' = session_got(met, session, sessions).sessions
          /\ status' = met
          /\ weather_data' = IF met = "200" THEN weather_reading(t, w, at[1], at[2])
                             ELSE None
    /\ UNCHANGED <<pc, error, reply, final_output, returned, run_vars, travel_info, geo_data,
                   complete_info, yielded, weather_service, close_calls, parser_vars>>

\* await service.close(), called on its own.
call_close ==
    /\ pc = "caller"
    /\ Len(calls) + close_calls < MaxCalls
    /\ close_calls' = close_calls + 1
    /\ sessions' = close(session, sessions)
    /\ UNCHANGED <<pc, error, calls, reply, final_output, returned, run_vars, stage_vars,
                   weather_service, session, status, parser_vars>>

ServiceNext ==
    \/ call_get_weather_info_by_coords
    \/ call_close

\* The service as the run uses it, and as a caller of its methods may use it.
LifecycleInit == Init \/ ServiceInit

LifecycleNext ==
    \/ Next
    \/ ServiceNext

LifecycleSpec == LifecycleInit /\ [][LifecycleNext]_vars

(***************************************************************************)
(* The claims                                                              *)
(***************************************************************************)
Made(callee) == \E n \in 1..Len(calls) : calls[n].callee = callee
Answered(callee) == \E n \in 1..Len(calls) : calls[n] = Called(callee, FALSE)
LastCall == IF calls = <<>> THEN Called("none", FALSE) ELSE calls[Len(calls)]
ParseFails(text) == try_parse_json(extract_json_text(text)).error # None
\* The endpoint and the model identifier are both set and not empty.
BothConfigured == Truthy(config.endpoint) /\ Truthy(config.model_deployment_name)

ParisFallback ==
    PyDict(<< <<destination, PyStr(<<"Paris">>)>>, <<duration, PyInt("7")>>,
              <<travel_type, PyStr(<<"vacation">>)>> >>)
UnavailableFallback ==
    PyDict(<< <<weather_summary, PyStr(<<"Weather data unavailable">>)>>,
              <<packing_notes, PyList(<< PyStr(<<"Pack for variable weather conditions">>) >>)>> >>)
\* How an f-string prints a temperature or wind speed of a reading.
Shown(v) == IF v = None THEN <<"None">> ELSE <<v[2]>>
ReadingFallback(reading) ==
    PyDict(<< <<weather_summary,
                PyStr(<<"Temp ">> \o Shown(DictGet(reading, temperature, None))
                      \o <<"°C, wind ">> \o Shown(DictGet(reading, wind_speed, None))
                      \o <<" m/s">>)>>,
              <<packing_notes, PyList(<< PyStr(<<"Layer clothing appropriately">>),
                                         PyStr(<<"Consider wind-resistant outerwear">>) >>)>> >>)

\* C1: with a valid configuration and no failing model call (nor a failing
\* credential or agent creation), whatever texts the model returns and whatever
\* the weather lookup returns, a run that has ended has ended without an error
\* and returned the report the Synthesis Stage yielded.
C1_MalformedOutputNeverStopsTheRun ==
    (pc = "ended" /\ BothConfigured
       /\ error \notin {"CredentialError", "AgentError", "LanguageModelError"})
    => (error = "" /\ yielded # None /\ returned = yielded)

C3_CloseInvokedExactlyOnce ==
    (weather_service /\ BothConfigured)
    => (close_calls <= 1 /\ (pc = "ended" => close_calls = 1))

\* C4: the record the Extraction Stage sends is a non-empty mapping holding
\* destination, duration and travel_type; when the model's text does not parse
\* it is exactly the Paris / 7 / vacation record.
C4_TravelInfoHasAllThreeFields ==
    (Answered("extraction") /\ BothConfigured)
    => /\ IsDict(travel_info) /\ Truthy(travel_info)
       /\ \A key \in {destination, duration, travel_type} : DictHas(travel_info, key)
       /\ (pc = "handle_travel_info" /\ ParseFails(reply)) => travel_info = ParisFallback

\* C5: when the geocoding output is an object that lacks latitude or longitude,
\* or holds for one of them a value that is no JSON number (a string, a
\* boolean, null, an array, an object), the weather lookup is not invoked,
\* weather is null and weather_analysis is the "unavailable" record.
NoNumberAt(data, key) ==
    ~DictHas(data, key) \/ Kind(DictGet(data, key, None)) \notin {"int", "float"}
C5_NoLookupWithoutNumericCoordinates ==
    (Answered("geocoding") /\ BothConfigured /\ IsDict(geo_data)
       /\ (NoNumberAt(geo_data, latitude_key) \/ NoNumberAt(geo_data, longitude_key)))
    => /\ ~Made("weather_lookup")
       /\ IsDict(complete_info)
       /\ DictHas(complete_info, weather) /\ DictGet(complete_info, weather, None) = None
       /\ DictGet(complete_info, weather_analysis, None) = UnavailableFallback

\* C6: the weather lookup is made with both coordinates resolved; when it
\* returns null, weather_analysis is the "unavailable" record and no assessment
\* call is made; when it returns a reading and the assessment text does not
\* parse, weather_analysis is the "Temp <t>°C, wind <w> m/s" record built from
\* that reading's temperature and wind_speed.
C6_FallbackAnalysisFollowsTheReading ==
    /\ Made("weather_lookup") => (latitude # None /\ longitude # None)
    /\ (Made("weather_lookup") /\ weather_data = None)
       => /\ ~Made("assessment")
          /\ IsDict(complete_info)
          /\ DictGet(complete_info, weather, PyTrue) = None
          /\ DictGet(complete_info, weather_analysis, None) = UnavailableFallback
    /\ (LastCall = Called("assessment", FALSE) /\ ParseFails(reply))
       => /\ IsDict(weather_data)
          /\ DictGet(complete_info, weather, None) = weather_data
          /\ DictGet(complete_info, weather_analysis, None) = ReadingFallback(weather_data)

C6_AssessmentDidNotParse ==
    /\ LastCall = Called("assessment", FALSE)
    /\ ParseFails(reply)
    /\ DictGet(weather_data, temperature, None) = PyFloat("18.0")
    /\ DictGet(weather_data, wind_speed, None) = PyFloat("3.2")

\* C7: the weather_analysis of every record the Enrichment Stage sends is a
\* mapping that holds both weather_summary and packing_notes.
C7_AnalysisHasBothKeys ==
    (complete_info # None /\ BothConfigured)
    => /\ IsDict(DictGet(complete_info, weather_analysis, None))
       /\ DictHas(DictGet(complete_info, weather_analysis, None), weather_summary)
       /\ DictHas(DictGet(complete_info, weather_analysis, None), packing_notes)

\* C8 as claimed: every key of the record the Extraction Stage sent, weather and
\* weather_analysis included, is in the record the Enrichment Stage sends, with
\* the same value.
C8_EveryTravelInfoKeyIsKept ==
    complete_info # None
    => \A key \in DictKeys(travel_info) :
          /\ DictHas(complete_info, key)
          /\ DictGet(complete_info, key, None) = DictGet(travel_info, key, None)

\* C8 as amended: the record the Enrichment Stage sends holds the keys of the
\* Extraction Stage's record and weather and weather_analysis, and no others;
\* every key other than weather and weather_analysis keeps its value, and
\* weather and weather_analysis hold the Enrichment Stage's own values, also
\* when the Extraction Stage's record had an entry of that name.
C8_KeysKeptButWeatherFields ==
    complete_info # None
    => /\ IsDict(travel_info) /\ IsDict(complete_info)
       /\ DictKeys(complete_info) = DictKeys(travel_info) \cup {weather, weather_analysis}
       /\ \A key \in DictKeys(travel_info) \ {weather, weather_analysis} :
             DictGet(complete_info, key, None) = DictGet(travel_info, key, None)
       /\ DictGet(complete_info, weather, PyTrue) = weather_data
       /\ IsDict(weather_data) \/ DictGet(complete_info, weather_analysis, None) = UnavailableFallback

C8_TravelInfoNamedWeatherAnalysis ==
    /\ complete_info # None
    /\ DictHas(travel_info, weather_analysis)
    /\ DictHas(travel_info, destination)
    /\ IsDict(weather_data)

\* C9: a model call that raised is the last collaborator call of the run; its
\* error is not replaced by a default: the run is in its finally clause or has
\* ended with that error, the stage that made the call has sent nothing, no
\* output was yielded and nothing is returned.
C9_ModelErrorAbortsTheRun ==
    \A n \in 1..Len(calls) :
       calls[n].raised
       => /\ n = Len(calls)
          /\ error = "LanguageModelError"
          /\ pc \in {"finally", "ended"}
          /\ yielded = None /\ final_output = <<>> /\ returned = None
          /\ calls[n].callee = "extraction" => travel_info = None
          /\ calls[n].callee \in {"extraction", "geocoding", "assessment"} => complete_info = None

C9_LaterCallRaised ==
    pc = "ended" /\ error = "LanguageModelError" /\ Len(calls) >= 3 /\ close_calls = 1

\* The required keys a parsed value lacks, in the order required.  A value
\* that is no mapping holds no key.
MissingFrom(value, required) ==
    SelectSeq(required, LAMBDA key : ~(IsDict(value) /\ DictHas(value, key)))

\* C10 as claimed: safe_load_validated returns one of three results.  When the
\* extracted text does not parse: the empty mapping and one warning, the parse
\* error.  When it parses and a required key is missing: the parsed value and
\* one warning that lists the missing keys.  When it parses and every required
\* key is present: the parsed value and no warning.
C10_ThreeShapesByKeys ==
    loaded # NotLoaded
    => LET parsed == try_parse_json(extract_json_text(raw))
       IN  IF parsed.error # None
           THEN /\ loaded.data = EmptyDict
                /\ Len(loaded.warnings) = 1
                /\ loaded.warnings[1] = <<"JSON parse error: ">> \o parsed.error[2]
           ELSE IF MissingFrom(parsed.data, required_keys) # <<>>
           THEN /\ loaded.data = parsed.data
                /\ Len(loaded.warnings) = 1
                /\ loaded.warnings[1]
                   = <<"Missing keys: ">> \o join(<<", ">>, MissingFrom(parsed.data, required_keys))
           ELSE loaded = [data |-> parsed.data, warnings |-> <<>>]

\* C10 as amended: safe_load_validated returns one of three results.  When the
\* extracted text does not parse: the empty mapping and one warning, the parse
\* error.  When it parses to a mapping that holds every required key: the
\* parsed value and no warning.  When it parses to anything else: the parsed
\* value and one warning that lists the required keys the value lacks, in the
\* order required; a value that is no mapping gets that warning also when no
\* key is required, and the warning then lists nothing.
C10_ThreeShapes ==
    loaded # NotLoaded
    => LET parsed == try_parse_json(extract_json_text(raw))
       IN  IF parsed.error # None
           THEN /\ loaded.data = EmptyDict
                /\ Len(loaded.warnings) = 1
                /\ loaded.warnings[1] = <<"JSON parse error: ">> \o parsed.error[2]
           ELSE IF IsDict(parsed.data) /\ MissingFrom(parsed.data, required_keys) = <<>>
           THEN loaded = [data |-> parsed.data, warnings |-> <<>>]
           ELSE /\ loaded.data = parsed.data
                /\ Len(loaded.warnings) = 1
                /\ loaded.warnings[1]
                   = <<"Missing keys: ">> \o join(<<", ">>, MissingFrom(parsed.data, required_keys))

C10_NoMappingAndNoKeyRequired ==
    /\ loaded # NotLoaded
    /\ try_parse_json(extract_json_text(raw)).error = None
    /\ ~IsDict(loaded.data)
    /\ required_keys = <<>>
    /\ loaded.warnings = << <<"Missing keys: ">> >>

\* C11: for a text with no triple-backtick fence and no brace, the extracted
\* text is the trimmed input, try_parse_json returns no value and an error, and
\* safe_load_validated returns the empty mapping and exactly one warning.
NoFenceNoBrace(text) ==
    \A n \in 1..Len(text) : ~FenceAt(text, n) /\ text[n] \notin {"{", "}"}
C11_PlainTextDoesNotParse ==
    (loaded # NotLoaded /\ NoFenceNoBrace(raw))
    => /\ json_text = strip(raw)
       /\ parsed_json.data = None /\ parsed_json.error # None
       /\ loaded.data = EmptyDict
       /\ Len(loaded.warnings) = 1

\* C12: the mapping of a successful call, written back as JSON text and passed
\* through extract_json_text and try_parse_json, yields that mapping again and
\* no error.
C12_RoundTrip ==
    (fed_back # NotLoaded /\ loaded # NotLoaded)
    => parsed_json = [data |-> fed_back.data, error |-> None]

\* The fenced blocks of a text, as the claims about them read a text: a block
\* opens with three backticks, optionally followed at once by the tag json in
\* any letter case, and runs to the next three backticks.
IsFence(text, n) ==
    n + 2 <= Len(text) /\ \A k \in 0..2 : text[n + k] = Backtick
IsTagged(text, n) ==
    IsFence(text, n) /\ n + 3 <= Len(text) /\ text[n + 3] \in {"json", "JSON", "Json"}
BodyStart(text, n) == IF IsTagged(text, n) THEN n + 4 ELSE n + 3
Closings(text, n) == {m \in BodyStart(text, n)..Len(text) : IsFence(text, m)}
Blocks(text) == {n \in 1..Len(text) : IsFence(text, n) /\ Closings(text, n) # {}}
HasJsonBlock(text) == \E n \in Blocks(text) : IsTagged(text, n)
Trimmed(text) ==
    IF \A n \in 1..Len(text) : text[n] \in {" ", "\n"} THEN <<>>
    ELSE SubSeq(text,
                Min({n \in 1..Len(text) : text[n] \notin {" ", "\n"}}),
                Max({n \in 1..Len(text) : text[n] \notin {" ", "\n"}}))
\* The inner content of the first block, trimmed, without the tag json: the tag
\* next to the fence, and the word json the trimmed content starts with.
InnerOfFirstBlock(text) ==
    LET n == Min(Blocks(text))
        inner == Trimmed(SubSeq(text, BodyStart(text, n), Min(Closings(text, n)) - 1))
    IN  IF inner # <<>> /\ inner[1] \in {"json", "JSON", "Json"}
        THEN Trimmed(Tail(inner)) ELSE inner
\* From the first opening brace to the last closing brace, for a text that is
\* not delimited by braces and holds an opening brace before a closing one.
BraceSlice(text) ==
    LET opening == {n \in 1..Len(text) : text[n] = "{"}
        closing == {n \in 1..Len(text) : text[n] = "}"}
    IN  IF text # <<>> /\ text[1] = "{" /\ text[Len(text)] = "}" THEN text
        ELSE IF opening # {} /\ closing # {} /\ Max(closing) > Min(opening)
        THEN SubSeq(text, Min(opening), Max(closing))
        ELSE text

\* C13 as claimed: for a text holding a fenced block tagged json, the extracted
\* text is the inner content of the first fenced block, the tag removed and
\* the whitespace around it trimmed, whatever that content is.
C13_OnlyTheInnerContent ==
    (loaded # NotLoaded /\ HasJsonBlock(Trimmed(raw)))
    => json_text = InnerOfFirstBlock(Trimmed(raw))

\* C13 as amended: for a text holding a fenced block tagged json, the extracted
\* text is the inner content of the first fenced block, the tag removed and
\* trimmed, when that content is delimited by braces or holds no opening brace
\* before a closing one; otherwise it is the part of that content from its
\* first opening brace to its last closing brace.
C13_InnerContentThenBraceSlice ==
    (loaded # NotLoaded /\ HasJsonBlock(Trimmed(raw)))
    => json_text = Trimmed(BraceSlice(InnerOfFirstBlock(Trimmed(raw))))

C13_InnerContentWasSliced ==
    /\ loaded # NotLoaded
    /\ HasJsonBlock(Trimmed(raw))
    /\ json_text # InnerOfFirstBlock(Trimmed(raw))
    /\ parsed_json.error = None

\* C14: validate_keys says ok exactly for a mapping that holds every required
\* key; for a mapping it reports the required keys the mapping lacks, in the
\* order required; for a value that is no mapping it says not ok and reports
\* every required key, also when none is required.
C14_ValidateKeys ==
    (loaded # NotLoaded /\ parsed_json.error = None)
    => /\ key_check.ok
          <=> /\ IsDict(parsed_json.data)
              /\ \A n \in 1..Len(required_keys) : DictHas(parsed_json.data, required_keys[n])
       /\ IsDict(parsed_json.data)
          => key_check.missing = MissingFrom(parsed_json.data, required_keys)
       /\ ~IsDict(parsed_json.data)
          => key_check = [ok |-> FALSE, missing |-> required_keys]

C14_MappingLacksTwoKeys ==
    /\ loaded # NotLoaded
    /\ IsDict(parsed_json.data)
    /\ required_keys = <<destination, duration, travel_type>>
    /\ key_check = [ok |-> FALSE, missing |-> <<duration, travel_type>>]

\* C20: the first component safe_load_validated returns is a mapping, whatever
\* the text, also when the text parses to a JSON value that is no object.
C20_DataIsAlwaysAMapping ==
    loaded # NotLoaded => IsDict(loaded.data)

\* How a scalar prints in the report.
Printed(v) ==
    IF Kind(v) = "str" THEN v[2] ELSE IF v = None THEN <<"None">> ELSE <<v[2]>>
\* The value under key, or what the report shows when the key is absent.
Field(info, key, default) == IF DictHas(info, key) THEN DictGet(info, key, None) ELSE default
HasLine(text, line) ==
    \E n \in 1..Len(text) :
       /\ n + Len(line) <= Len(text)
       /\ SubSeq(text, n, n + Len(line) - 1) = line
       /\ text[n + Len(line)] = "\n"
       /\ n > 1 /\ text[n - 1] = "\n"

\* C15: the report shows the destination, duration and travel type of the
\* record the Synthesis Stage received; it holds a weather line exactly when
\* weather_analysis has a non-empty weather_summary, and the line shows that
\* summary; after a weather lookup that returned null the line reads "Weather
\* data unavailable" and the notes are ["Pack for variable weather conditions"].
C15_ReportShowsTheContext ==
    yielded # None
    => LET report == yielded[2]
           analysis == DictGet(complete_info, weather_analysis, EmptyDict)
           summary == Field(analysis, weather_summary, None)
       IN  /\ HasLine(report, <<"Destination: ">>
                              \o Printed(Field(complete_info, destination, PyStr(<<"Unknown">>))))
           /\ HasLine(report, <<"Duration: ">>
                              \o Printed(Field(complete_info, duration, PyInt("7")))
                              \o <<" days">>)
           /\ HasLine(report, <<"Travel Type: ">>
                              \o Printed(Field(complete_info, travel_type, PyStr(<<"vacation">>))))
           /\ (\E n \in 1..Len(report) : report[n] = "Weather: ")
              <=> summary \notin {None, PyStr(<<>>)}
           /\ summary \notin {None, PyStr(<<>>)}
              => HasLine(report, <<"Weather: ">> \o Printed(summary))
           /\ (Made("weather_lookup") /\ weather_data = None)
              => /\ HasLine(report, <<"Weather: ", "Weather data unavailable">>)
                 /\ DictGet(analysis, packing_notes, None)
                    = PyList(<< PyStr(<<"Pack for variable weather conditions">>) >>)

C15_ReportAfterNullLookup ==
    /\ yielded # None
    /\ Made("weather_lookup") /\ weather_data = None
    /\ DictGet(complete_info, destination, None) = PyStr(<<"Rome">>)

\* The states of the pipeline.
Extracting == pc = "handle_user_input"
Enriching == pc \in {"handle_travel_info", "get_weather_info_by_coords", "assess"}
Synthesizing == pc = "handle_complete_info"
\* The run returned a report.
Done == pc = "ended" /\ error = "" /\ returned \notin {None, PyStr(<<>>)}
Position(p) ==
    CASE p = "validate_config" -> 0
      [] p = "credential" -> 1
      [] p = "create_agents" -> 2
      [] p = "handle_user_input" -> 3
      [] p = "handle_travel_info" -> 4
      [] p = "get_weather_info_by_coords" -> 5
      [] p = "assess" -> 6
      [] p = "handle_complete_info" -> 7
      [] p = "run_stream" -> 8
      [] p = "finally" -> 9
      [] OTHER -> 10
StageOutputs ==
    /\ Extracting => (travel_info = None /\ complete_info = None /\ yielded = None)
    /\ Enriching => (travel_info # None /\ complete_info = None /\ yielded = None)
    /\ Synthesizing => (complete_info # None /\ yielded = None)
    /\ complete_info # None => travel_info # None
    /\ yielded # None => (complete_info # None /\ LastCall = Called("synthesis", FALSE))
    /\ Done => (yielded # None /\ returned = yielded)
    /\ \A m, n \in 1..Len(calls) : calls[m].callee = calls[n].callee => m = n
OnlyForward ==
    /\ Position(pc') > Position(pc)
    /\ travel_info' # travel_info => (Extracting /\ Position(pc') > Position(pc))
    /\ complete_info' # complete_info => Enriching
    /\ yielded' # yielded => Synthesizing

\* C16: the run only moves forward through Extracting, Enriching, Synthesizing
\* and Done: no step goes back or stays, each stage and each call happens at
\* most once, a stage is active only after the stage before it has sent its
\* output and before the next has its input, and a report is returned only
\* after the Synthesis Stage has yielded it.
C16_ForwardOnly == [](StageOutputs) /\ [][OnlyForward]_vars

C16_ReachedDone == Done /\ Len(calls) = 5

\* C17: get_weather_info_by_coords raises nothing: after it the run goes on
\* without an error.  It returns null for a status other than 200 and for every
\* error (no session, a failed request, a body that cannot be read), and for
\* status 200 a reading that holds the latitude and longitude it was called
\* with and the source "open-meteo".
C17_LookupReturnsAReadingOrNull ==
    /\ status # "none" <=> Made("weather_lookup")
    /\ LastCall = Called("weather_lookup", FALSE)
       => (error = "" /\ pc \in {"assess", "handle_complete_info"})
    /\ status \notin {"none", "200"} => weather_data = None
    /\ status = "200"
       => /\ IsDict(weather_data)
          /\ DictKeys(weather_data)
             = {temperature, wind_speed, latitude_key, longitude_key, <<"source">>}
          /\ DictGet(weather_data, latitude_key, None) = latitude
          /\ DictGet(weather_data, longitude_key, None) = longitude
          /\ DictGet(weather_data, <<"source">>, None) = PyStr(<<"open-meteo">>)

C17_ReadingAt200 ==
    /\ status = "200"
    /\ latitude = PyFloat("48.85") /\ longitude = PyFloat("2.35")
    /\ IsDict(weather_data)

\* C18: the configuration check passes exactly when both the endpoint and the
\* model identifier are present and not empty; when one of them is absent or
\* empty the run ends with the configuration error before any stage runs.
C18_BothSettingsRequired ==
    pc # "validate_config"
    => /\ error # "RuntimeError" <=> BothConfigured
       /\ ~BothConfigured
          => (pc = "ended" /\ error = "RuntimeError" /\ calls = <<>> /\ travel_info = None)

\* C19: a run that returned a report made its calls in the order extraction,
\* geocoding, weather lookup (if any), assessment (if any), synthesis; the
\* lookup was made exactly when both coordinates resolved, the assessment
\* exactly when the lookup returned a reading; the model was called 4 times
\* with a reading and 3 times without.
Callees == [n \in 1..Len(calls) |-> calls[n].callee]
ModelCalls == Cardinality({n \in 1..Len(calls) : calls[n].callee # "weather_lookup"})
C19_CallsInOrder ==
    /\ Made("weather_lookup") => (latitude # None /\ longitude # None)
    /\ Made("assessment") => (Made("weather_lookup") /\ weather_data # None)
    /\ Done
       => /\ Callees \in {<<"extraction", "geocoding", "synthesis">>,
                         <<"extraction", "geocoding", "weather_lookup", "synthesis">>,
                         <<"extraction", "geocoding", "weather_lookup", "assessment",
                           "synthesis">>}
          /\ \A n \in 1..Len(calls) : ~calls[n].raised
          /\ Made("weather_lookup") <=> (latitude # None /\ longitude # None)
          /\ Made("assessment") <=> (Made("weather_lookup") /\ weather_data # None)
          /\ ModelCalls = IF weather_data # None THEN 4 ELSE 3

C19_FourModelCalls == Done /\ ModelCalls = 4 /\ weather_data # None

\* The sessions that are open: created and not closed.
Open(made) == {n \in 1..Len(made) : made[n] = "open"}
GetStep == calls' = Append(calls, Called("weather_lookup", FALSE))
CloseStep == close_calls' = close_calls + 1

\* What one step does to the sessions of a WeatherService.
SessionStep ==
    /\ Len(sessions') > Len(sessions)
       => /\ GetStep
          /\ Open(sessions) = {}
          /\ sessions' = Append(sessions, "open")
          /\ session' = Len(sessions')
    /\ (GetStep /\ Open(sessions) # {})
       => (session' = session /\ sessions' = sessions /\ sessions[session] = "open")
    /\ CloseStep
       => /\ Open(sessions') = {}
          /\ session' = session
          /\ Len(sessions') = Len(sessions)
          /\ Open(sessions) = {} => sessions' = sessions
    /\ ~(GetStep \/ CloseStep) => UNCHANGED <<session, sessions>>
    /\ (GetStep /\ pc # "caller") => close_calls = 0

\* C21: over any sequence of get_weather_info_by_coords and close calls on one
\* WeatherService at most one session is open at any time; no session exists
\* before the first get call (none is created at construction); a session is
\* created only by a get call made when none is open; a get call made when one
\* is open reuses it; close leaves no session open and changes nothing when
\* none is open.  Within a run of the pipeline no get call follows close, and
\* no session is open once the run has ended.
C21_SessionLifecycle ==
    /\ [](/\ Cardinality(Open(sessions)) <= 1
          /\ ~Made("weather_lookup") => sessions = <<>>
          /\ pc = "ended" => Open(sessions) = {})
    /\ [][SessionStep]_vars

\* The caller made three get calls and one close: the get call after close
\* created a second session, and one get call reused an open session.
C21_SecondSessionReused ==
    /\ pc = "caller"
    /\ sessions = <<"closed", "open">>
    /\ Len(calls) = 3
    /\ close_calls = 1

====
